---- MODULE Spec2Model ----
(***************************************************************************)
(* Model of the Mandelbrot Set Explorer (SirMik3/MandelbrotSetCPP): the    *)
(* MandelbrotParams view state, the event handlers of main()'s loop and    *)
(* the fragment shader: its coordinate mapping, its iteration cap and the  *)
(* escape-time loop of mandelbrot().                                       *)
(*                                                                         *)
(* Spec and SpecFP run the main loop (exact and bounded precision),        *)
(* SpecFlat adds a window without height, SpecFair adds the fairness of    *)
(* the loop's own steps, SpecShader runs one invocation of the shader, one *)
(* loop pass per step, and SpecMapper runs the coordinate mapping of the   *)
(* shader for pixels next to each other, in exact and in single precision. *)
(*                                                                         *)
(* Numbers.  A double or float value is a normalised fraction <<n, d>>,    *)
(* d > 0; the values that are not numbers have d = 0: <<1, 0>> is +inf,    *)
(* <<-1, 0>> is -inf and <<0, 0>> is NaN.  The variable `precision` fixes  *)
(* how an arithmetic result is stored:                                     *)
(*   "ideal"   - results are kept exactly (the real-number reading of the  *)
(*               code, used for the algebraic properties);                 *)
(*   "bounded" - every double result is rounded to the nearest multiple of *)
(*               2^-DBits and every float result to the nearest multiple   *)
(*               of 2^-FBits (ties to even).  This is IEEE arithmetic near *)
(*               zero, where doubles are the multiples of 2^-1074 and      *)
(*               floats the multiples of 2^-149, scaled down.  Literals of *)
(*               the source keep their value; results are rounded.         *)
(*   "single"  - every float result is rounded to MBits significant bits   *)
(*               (ties to even) and doubles are kept exactly.  This is the *)
(*               24-bit significand of an IEEE float, scaled down.         *)
(***************************************************************************)
EXTENDS Integers, Sequences, FiniteSets, TLC

VARIABLES
    params,      \* the MandelbrotParams instance of main()
    running,     \* main()'s loop flag
    windowSize,  \* what window.getSize() returns: <<width, height>>
    event,       \* the event most recently returned by pollEvent and handled
    pc,          \* position in main(): "poll", "draw", "display", "done", "rejected"
    uniforms,    \* the shader uniforms as last uploaded
    nEvents,     \* number of events handled so far
    nWheel,      \* number of vertical wheel events among them
    precision,   \* "ideal", "bounded" or "single" (see above); never changes
    shader       \* one invocation of the fragment shader on the uploaded uniforms

vars == <<params, running, windowSize, event, pc, uniforms, nEvents, nWheel, precision,
          shader>>

----------------------------------------------------------------------------
(* Bounds of the model *)

MaxEvents == 3      \* events handled in one run
MaxWheel == 2       \* vertical wheel events handled in one run
MaxDeep == 11       \* wheel-forward steps behind the deepest initial zoom of SpecFP
DBits == 4          \* bounded mode: a double is a multiple of 2^-DBits
FBits == 1          \* bounded mode: a float is a multiple of 2^-FBits
MBits == 12         \* single mode: a float has MBits significant bits

\* pointer positions delivered with mouse events, in window pixels
\* (x to the right, y downwards from the top-left corner)
Pixels == {<<0, 0>>, <<600, 400>>, <<900, 200>>}

\* window sizes a Resized event can announce
Sizes == {<<1200, 800>>, <<800, 800>>}

\* command lines: <<>> without --max-iters, <<v>> with --max-iters v
CliValues == {<<>>, <<0>>, <<995>>, <<1001>>}

----------------------------------------------------------------------------
(* Fractions *)

Abs(x) == IF x < 0 THEN -x ELSE x

RECURSIVE Gcd(_, _)
Gcd(a, b) == IF b = 0 THEN a ELSE Gcd(b, a % b)

Sign(n) == IF n > 0 THEN 1 ELSE IF n < 0 THEN -1 ELSE 0

Norm(n, d) ==
    IF d = 0 THEN <<Sign(n), 0>>
    ELSE LET g == Gcd(Abs(n), d)
         IN  <<n \div g, d \div g>>

NaN == <<0, 0>>
Finite(a) == a[2] # 0

R(n) == <<n, 1>>
Frac(n, d) == Norm(n, d)

RNeg(a) == <<-a[1], a[2]>>

\* inf + (-inf) is NaN
RAdd(a, b) ==
    IF Finite(a) /\ Finite(b)
    THEN LET g == Gcd(a[2], b[2])
             l == (a[2] \div g) * b[2]
         IN  Norm(a[1] * (l \div a[2]) + b[1] * (l \div b[2]), l)
    ELSE IF a = NaN \/ b = NaN THEN NaN
    ELSE IF ~Finite(a) /\ ~Finite(b) THEN (IF a = b THEN a ELSE NaN)
    ELSE IF Finite(a) THEN b ELSE a

RSub(a, b) == RAdd(a, RNeg(b))

\* 0 * inf is NaN
RMul(a, b) ==
    IF Finite(a) /\ Finite(b)
    THEN LET g1 == Gcd(Abs(a[1]), b[2])
             g2 == Gcd(Abs(b[1]), a[2])
         IN  Norm((a[1] \div g1) * (b[1] \div g2), (a[2] \div g2) * (b[2] \div g1))
    ELSE IF a = NaN \/ b = NaN THEN NaN
    ELSE <<Sign(a[1]) * Sign(b[1]), 0>>

\* 1 / b; 1 / 0 is +inf, 1 / inf is 0
Recip(b) ==
    IF b[1] > 0 THEN <<b[2], b[1]>>
    ELSE IF b[1] < 0 THEN <<-b[2], -b[1]>>
    ELSE IF Finite(b) THEN <<1, 0>> ELSE NaN

\* a / b; x / 0 is +inf, -inf or (x = 0) NaN
RDiv(a, b) == RMul(a, Recip(b))

\* a comparison with NaN is false
RLt(a, b) == a # NaN /\ b # NaN /\ a # b /\ RSub(a, b)[1] < 0
RLe(a, b) == a # NaN /\ b # NaN /\ (a = b \/ RSub(a, b)[1] < 0)
RPos(a) == a[1] > 0

RECURSIVE Pow2(_)
Pow2(k) == IF k = 0 THEN 1 ELSE 2 * Pow2(k - 1)

\* a / b (b > 0) rounded to the nearest integer, ties to the even one
RoundHalfEven(a, b) ==
    LET q == a \div b
        r == a % b
    IN  IF 2 * r < b THEN q
        ELSE IF 2 * r > b THEN q + 1
        ELSE IF q % 2 = 0 THEN q ELSE q + 1

RoundGrid(x, bits) ==
    IF Finite(x) THEN Norm(RoundHalfEven(x[1] * Pow2(bits), x[2]), Pow2(bits)) ELSE x

\* the value a double holds after an operation whose exact result is x
Dbl(x) == IF precision = "bounded" THEN RoundGrid(x, DBits) ELSE x

\* the e with 2^e <= a < 2^(e+1), for a fraction a > 0
RECURSIVE Exponent(_)
Exponent(a) ==
    IF a[1] < a[2] THEN Exponent(RMul(a, R(2))) - 1
    ELSE IF a[1] >= 2 * a[2] THEN Exponent(RMul(a, <<1, 2>>)) + 1
    ELSE 0

\* x * 2^s
ScalePow2(x, s) == IF s >= 0 THEN RMul(x, R(Pow2(s))) ELSE RMul(x, <<1, Pow2(-s)>>)

\* x rounded to the nearest value with `bits` significant bits
RoundSig(x, bits) ==
    IF ~Finite(x) \/ x[1] = 0 THEN x
    ELSE LET a == <<Abs(x[1]), x[2]>>
             s == bits - 1 - Exponent(a)
             y == ScalePow2(a, s)
         IN  ScalePow2(R(Sign(x[1]) * RoundHalfEven(y[1], y[2])), -s)

\* static_cast<float>(x), and the value a float holds after an operation
Flt(x) ==
    IF precision = "ideal" THEN x
    ELSE IF precision = "bounded" THEN RoundGrid(x, FBits)
    ELSE RoundSig(x, MBits)

DAdd(a, b) == Dbl(RAdd(a, b))
DSub(a, b) == Dbl(RSub(a, b))
DMul(a, b) == Dbl(RMul(a, b))
DDiv(a, b) == Dbl(RDiv(a, b))
FAdd(a, b) == Flt(RAdd(a, b))
FSub(a, b) == Flt(RSub(a, b))
FMul(a, b) == Flt(RMul(a, b))
FDiv(a, b) == Flt(RDiv(a, b))

----------------------------------------------------------------------------
(* MandelbrotParams *)

colors ==
    << <<R(1), R(1), R(1)>>, <<R(1), R(0), R(0)>>, <<R(0), R(1), R(0)>>,
       <<R(0), R(0), R(1)>>, <<R(1), R(1), R(0)>>, <<R(1), R(0), R(1)>>,
       <<R(0), R(1), R(1)>> >>

colorsBg ==
    << <<R(0), R(0), R(0)>>, <<Frac(1, 2), R(0), R(0)>>, <<R(0), Frac(1, 2), R(0)>>,
       <<R(0), R(0), Frac(1, 2)>>, <<Frac(1, 2), Frac(1, 2), R(0)>>,
       <<Frac(1, 2), R(0), Frac(1, 2)>>, <<R(0), Frac(1, 2), Frac(1, 2)>> >>

\* the member initialisers of the struct
DefaultParams ==
    [ zoom               |-> R(1),
      offsetX            |-> Frac(3, 10),
      offsetY            |-> R(1),
      maxIterations      |-> 100,
      colorMode          |-> 0,
      colorModeBg        |-> 0,
      adaptiveIterations |-> TRUE,
      isDragging         |-> FALSE,
      lastMouseX         |-> 0,
      lastMouseY         |-> 0 ]

\* mutant: reset() without the assignment to zoom
resetForgetsZoom(p) ==
    [p EXCEPT !.offsetX = R(0),
              !.offsetY = R(0),
              !.maxIterations = 100,
              !.colorMode = 0,
              !.adaptiveIterations = TRUE]

\* MandelbrotParams::reset()
reset(p) ==
    [p EXCEPT !.zoom = R(2),
              !.offsetX = R(0),
              !.offsetY = R(0),
              !.maxIterations = 100,
              !.colorMode = 0,
              !.adaptiveIterations = TRUE]

----------------------------------------------------------------------------
(* Command line: --max-iters *)

\* TRUE when main() returns -1 for this value
MaxItersRejected(value) == value < 0 \/ value > 1000

\* the value main() stores in params.maxIterations before the loop
StartMaxIterations(args) == IF args = <<>> THEN DefaultParams.maxIterations ELSE args[1]

----------------------------------------------------------------------------
(* Events returned by window.pollEvent() *)

NoEvent ==
    [type |-> "None", code |-> "-", position |-> <<0, 0>>, delta |-> 0,
     size |-> <<0, 0>>]

Ev(type, code) == [NoEvent EXCEPT !.type = type, !.code = code]

Keys == {"Escape", "R", "C", "V", "B", "N", "Equal", "Hyphen", "A", "Other"}
Buttons == {"Left", "Right"}
Wheels == {"Vertical", "Horizontal"}
Deltas == {1, -1}

----------------------------------------------------------------------------
(* size_t arithmetic of the palette keys *)

SizeTBits == 64

\* 2^k mod m
RECURSIVE Pow2Mod(_, _)
Pow2Mod(k, m) == IF k = 0 THEN 1 % m ELSE (2 * Pow2Mod(k - 1, m)) % m

\* (x + n) % m where x is an int, n and m are size_t: x is converted to
\* size_t (a negative x becomes 2^64 + x) and the sum wraps modulo 2^64
SizeTAddMod(x, n, m) ==
    IF x >= 0 \/ x + n >= 0 THEN (x + n) % m
    ELSE (Pow2Mod(SizeTBits, m) + ((x + n) % m)) % m

\* mutant: colorMode + 1, the modulo left out
CycleForwardNoWrap(index) == index + 1

\* (colorMode + 1) % colors.size()
CycleForward(index) == SizeTAddMod(index, 1, Len(colors))

\* mutant: (colorMode - 1) % colors.size(), the added size left out
CycleBackwardNoBias(index) == SizeTAddMod(index - 1, 0, Len(colors))

\* (colorMode - 1 + colors.size()) % colors.size()
CycleBackward(index) == SizeTAddMod(index - 1, Len(colors), Len(colors))

----------------------------------------------------------------------------
(* Key handlers *)

IncreaseIterations(n) == IF 1000 < n + 10 THEN 1000 ELSE n + 10

DecreaseIterations(n) == IF 10 > n - 10 THEN 10 ELSE n - 10

OnKeyPressed(p, code) ==
    CASE code = "R" -> reset(p)
      [] code = "C" -> [p EXCEPT !.colorMode = CycleForward(p.colorMode)]
      [] code = "V" -> [p EXCEPT !.colorMode = CycleBackward(p.colorMode)]
      [] code = "B" -> [p EXCEPT !.colorModeBg = CycleForward(p.colorModeBg)]
      [] code = "N" -> [p EXCEPT !.colorModeBg = CycleBackward(p.colorModeBg)]
      [] code = "Equal" ->
            [p EXCEPT !.maxIterations = IncreaseIterations(p.maxIterations)]
      [] code = "Hyphen" ->
            [p EXCEPT !.maxIterations = DecreaseIterations(p.maxIterations)]
      [] code = "A" -> [p EXCEPT !.adaptiveIterations = ~p.adaptiveIterations]
      [] OTHER -> p

----------------------------------------------------------------------------
(* Mouse handlers *)

\* mutant: the press handler without the test of the button
OnAnyButtonPressed(p, button, pos) ==
    [p EXCEPT !.isDragging = TRUE, !.lastMouseX = pos[1], !.lastMouseY = pos[2]]

OnMouseButtonPressed(p, button, pos) ==
    IF button = "Left"
    THEN [p EXCEPT !.isDragging = TRUE, !.lastMouseX = pos[1], !.lastMouseY = pos[2]]
    ELSE p

OnMouseButtonReleased(p, button) ==
    IF button = "Left" THEN [p EXCEPT !.isDragging = FALSE] ELSE p

PanOffsetX(p, size, pos) ==
    LET deltaX == pos[1] - p.lastMouseX
        aspectRatio == DDiv(R(size[1]), R(size[2]))
    IN  DSub(p.offsetX,
             DMul(DMul(DMul(DDiv(R(deltaX), R(size[1])), p.zoom), aspectRatio), R(2)))

\* mutant: offsetY += ... in place of offsetY -= ...
PanOffsetYAdds(p, size, pos) ==
    LET deltaY == pos[2] - p.lastMouseY
    IN  DAdd(p.offsetY, DMul(DMul(DDiv(R(deltaY), R(size[2])), p.zoom), R(2)))

PanOffsetY(p, size, pos) ==
    LET deltaY == pos[2] - p.lastMouseY
    IN  DSub(p.offsetY, DMul(DMul(DDiv(R(deltaY), R(size[2])), p.zoom), R(2)))

\* mutant: the move handler without the update of lastMouseX and lastMouseY
OnMouseMovedStaleLast(p, size, pos) ==
    IF p.isDragging
    THEN [p EXCEPT !.offsetX = PanOffsetX(p, size, pos),
                   !.offsetY = PanOffsetY(p, size, pos)]
    ELSE p

OnMouseMoved(p, size, pos) ==
    IF p.isDragging
    THEN [p EXCEPT !.offsetX = PanOffsetX(p, size, pos),
                   !.offsetY = PanOffsetY(p, size, pos),
                   !.lastMouseX = pos[1],
                   !.lastMouseY = pos[2]]
    ELSE p

\* mutant: the two factors exchanged
ZoomFactorSwapped(delta) == IF delta > 0 THEN Frac(1176, 1000) ELSE Frac(85, 100)

ZoomFactor(delta) == IF delta > 0 THEN Frac(85, 100) ELSE Frac(1176, 1000)

\* mouseX after the aspect correction
WheelMouseX(size, mousePos) ==
    LET mouseX == DMul(DSub(DDiv(R(mousePos[1]), R(size[1])), Frac(1, 2)), R(2))
        aspectRatio == DDiv(R(size[1]), R(size[2]))
    IN  DMul(mouseX, aspectRatio)

WheelMouseY(size, mousePos) ==
    RNeg(DMul(DSub(DDiv(R(mousePos[2]), R(size[2])), Frac(1, 2)), R(2)))

ZoomedZoom(zoom, delta) == DMul(zoom, ZoomFactor(delta))

\* offset' = (mouse * zoom + offset) - mouse * zoom'
ZoomedOffset(offset, mouse, zoom, newZoom) ==
    LET complex == DAdd(DMul(mouse, zoom), offset)
    IN  DSub(complex, DMul(mouse, newZoom))

OnMouseWheelScrolled(p, size, wheel, delta, mousePos) ==
    IF wheel = "Vertical"
    THEN LET newZoom == ZoomedZoom(p.zoom, delta)
         IN  [p EXCEPT !.zoom = newZoom,
                       !.offsetX = ZoomedOffset(p.offsetX, WheelMouseX(size, mousePos),
                                                p.zoom, newZoom),
                       !.offsetY = ZoomedOffset(p.offsetY, WheelMouseY(size, mousePos),
                                                p.zoom, newZoom)]
    ELSE p

----------------------------------------------------------------------------
(* Fragment shader: the pixel-to-plane mapping of main() *)

\* gl_FragCoord.xy at the window position pos.  Window positions (mouse
\* events, Mouse::getPosition) count y downwards from the top-left corner;
\* gl_FragCoord counts y upwards from the lower-left corner of the window.
FragCoord(pos, size) == <<R(pos[1]), R(size[2] - pos[2])>>

\* c, from screenPos = gl_FragCoord.xy and the uniforms
CoordinateMapper(screenPos, resolution, zoomU, offsetU) ==
    LET screenCenter == <<FMul(resolution[1], Frac(1, 2)), FMul(resolution[2], Frac(1, 2))>>
        pixelOffset == <<FSub(screenPos[1], screenCenter[1]),
                         FSub(screenPos[2], screenCenter[2])>>
        aspectRatio == FDiv(resolution[1], resolution[2])
    IN  << FAdd(offsetU[1],
                FMul(FMul(FMul(FDiv(pixelOffset[1], resolution[1]), zoomU), aspectRatio),
                     R(2))),
           FAdd(offsetU[2],
                RNeg(FMul(FMul(FDiv(pixelOffset[2], resolution[2]), zoomU), R(2)))) >>

----------------------------------------------------------------------------
(* Uniform upload of the frame *)

\* seq[index] of a std::vector; an index outside the vector reads whatever
\* lies there
VectorAt(seq, index) ==
    IF index + 1 \in DOMAIN seq THEN {seq[index + 1]}
    ELSE {seq[i] : i \in DOMAIN seq} \cup {<<R(0), R(0), R(0)>>}

FrameUniforms(p, size, color, colorBg) ==
    [ resolution         |-> <<Flt(R(size[1])), Flt(R(size[2]))>>,
      zoom               |-> Flt(p.zoom),
      offset             |-> <<Flt(p.offsetX), Flt(p.offsetY)>>,
      maxIterations      |-> p.maxIterations,
      color              |-> color,
      colorBg            |-> colorBg,
      adaptiveIterations |-> p.adaptiveIterations ]

\* the uniforms of a program object before the first upload
NoUniforms ==
    [ resolution         |-> <<R(0), R(0)>>,
      zoom               |-> R(0),
      offset             |-> <<R(0), R(0)>>,
      maxIterations      |-> 0,
      color              |-> <<R(0), R(0), R(0)>>,
      colorBg            |-> <<R(0), R(0), R(0)>>,
      adaptiveIterations |-> FALSE ]

\* the complex point the shader computes at window position pos from the
\* view state p
PointAt(pos, size, p) ==
    CoordinateMapper(FragCoord(pos, size), <<Flt(R(size[1])), Flt(R(size[2]))>>,
                     Flt(p.zoom), <<Flt(p.offsetX), Flt(p.offsetY)>>)

----------------------------------------------------------------------------
(* Fragment shader: the iteration count of main() *)

\* the largest e with 2^e <= y, for a fraction y >= 1
RECURSIVE FloorLog2(_)
FloorLog2(y) == IF y[1] < 2 * y[2] THEN 0 ELSE 1 + FloorLog2(Norm(y[1], 2 * y[2]))

RECURSIVE RPow(_, _)
RPow(x, k) == IF k = 0 THEN R(1) ELSE RMul(x, RPow(x, k - 1))

\* the largest integer not above k * log2(x), for a fraction x >= 1 and
\* k >= 0: k * e when x = 2^e, and the e with 2^e <= x^k < 2^(e+1) otherwise
FloorMulLog2(k, x) ==
    IF x[2] = 1 /\ x[1] = Pow2(FloorLog2(x)) THEN k * FloorLog2(x)
    ELSE FloorLog2(RPow(x, k))

\* what int() may return for an argument that is not a finite number
UndefinedInts == {-1, 0, 2147483647}

\* mutant: the product rounded to the nearest integer
RoundOfScaledLog(m, x) ==
    IF Finite(x) THEN {(10 * m + FloorMulLog2(m, x) + 5) \div 10} ELSE UndefinedInts

\* int(float(m) * (1.0 + log2(x) * 0.1)) for x >= 1.  log2(x) is irrational
\* in general, so the product is not formed: the result is the largest
\* integer N with 10 * N <= 10 * m + m * log2(x) (int() discards the
\* fraction).
IntOfScaledLog(m, x) ==
    IF Finite(x) THEN {(10 * m + FloorMulLog2(m, x)) \div 10} ELSE UndefinedInts

\* mutant: zoomFactor = zoom
ZoomItself(zoom) == zoom

\* float zoomFactor = 1.0 / zoom
ShaderZoomFactor(zoom) == FDiv(R(1), zoom)

\* max(x, y) of GLSL: y if x < y, otherwise x
RMax(x, y) == IF RLt(x, y) THEN y ELSE x

\* mutant: the cap left out
UnclampedIter(n) == n

\* min(adaptiveMaxIter, 2000)
ClampIter(n) == IF 2000 < n THEN 2000 ELSE n

\* mutant: the scaling applied whatever adaptiveIterations is
AlwaysAdaptiveMaxIter(u) ==
    {ClampIter(n) :
        n \in IntOfScaledLog(u.maxIterations, RMax(ShaderZoomFactor(u.zoom), R(1)))}

\* the values adaptiveMaxIter can have when mandelbrot() is called
AdaptiveMaxIter(u) ==
    IF u.adaptiveIterations
    THEN {ClampIter(n) :
            n \in IntOfScaledLog(u.maxIterations, RMax(ShaderZoomFactor(u.zoom), R(1)))}
    ELSE {u.maxIterations}

----------------------------------------------------------------------------
(* Fragment shader: mandelbrot() *)

\* mix(colorBg, color, t), per component
getColor(t, color, colorBg) ==
    [k \in 1 .. 3 |-> FAdd(FMul(colorBg[k], FSub(R(1), t)), FMul(color[k], t))]

dot(a, b) == FAdd(FMul(a[1], b[1]), FMul(a[2], b[2]))

\* mutant: z_squared < 4.0
InsideTest(z) == RLt(dot(z, z), R(4))

\* mutant: z_squared >= 4.0
EscapeTestAtFour(z) == RLe(R(4), dot(z, z))

\* z_squared > 4.0
EscapeTest(z) == RLt(R(4), dot(z, z))

\* z = vec2(zx2 - zy2, 2.0 * zxy) + c
NextZ(z, c) ==
    LET zx2 == FMul(z[1], z[1])
        zy2 == FMul(z[2], z[2])
        zxy == FMul(z[1], z[2])
    IN  <<FAdd(FSub(zx2, zy2), c[1]), FAdd(FMul(R(2), zxy), c[2])>>

\* the invocation before main() runs; screenPos is gl_FragCoord.xy
NoFragment ==
    [ stage     |-> "idle",
      screenPos |-> <<R(0), R(0)>>,
      c         |-> <<R(0), R(0)>>,
      maxIter   |-> 0,
      i         |-> 0,
      iter      |-> 0,
      z         |-> <<R(0), R(0)>>,
      result    |-> "none",
      t         |-> R(0),
      FragColor |-> <<R(0), R(0), R(0), R(0)>> ]

----------------------------------------------------------------------------
(* main(): start-up and the main loop *)

Start(args, prec) ==
    /\ precision = prec
    /\ params = IF args # <<>> /\ MaxItersRejected(args[1])
                THEN DefaultParams
                ELSE [DefaultParams EXCEPT !.maxIterations = StartMaxIterations(args)]
    /\ pc = IF args # <<>> /\ MaxItersRejected(args[1]) THEN "rejected" ELSE "poll"
    /\ running = TRUE
    /\ windowSize = <<1200, 800>>
    /\ event = NoEvent
    /\ uniforms = NoUniforms
    /\ nEvents = 0
    /\ nWheel = 0
    /\ shader = NoFragment

Init == \E args \in CliValues : Start(args, "ideal")

\* mutant: events are polled and handled while the frame is being drawn too
HandleDuringFrame(e, newParams) ==
    /\ pc \in {"poll", "display"}
    /\ nEvents < MaxEvents
    /\ nWheel' = IF e.type = "MouseWheelScrolled" /\ e.code = "Vertical"
                 THEN nWheel + 1 ELSE nWheel
    /\ nWheel' <= MaxWheel
    /\ event' = e
    /\ params' = newParams
    /\ nEvents' = nEvents + 1
    /\ UNCHANGED <<pc, uniforms, precision, shader>>

\* one pollEvent() that returns the event e, and its handler
Handle(e, newParams) ==
    /\ pc = "poll"
    /\ nEvents < MaxEvents
    /\ nWheel' = IF e.type = "MouseWheelScrolled" /\ e.code = "Vertical"
                 THEN nWheel + 1 ELSE nWheel
    /\ nWheel' <= MaxWheel
    /\ event' = e
    /\ params' = newParams
    /\ nEvents' = nEvents + 1
    /\ UNCHANGED <<pc, uniforms, precision, shader>>

Closed ==
    /\ Handle(Ev("Closed", "-"), params)
    /\ running' = FALSE
    /\ UNCHANGED windowSize

Resized ==
    \E size \in Sizes :
        /\ Handle([Ev("Resized", "-") EXCEPT !.size = size], params)
        /\ windowSize' = size
        /\ UNCHANGED running

KeyPressed ==
    \E code \in Keys :
        /\ Handle(Ev("KeyPressed", code), OnKeyPressed(params, code))
        /\ running' = IF code = "Escape" THEN FALSE ELSE running
        /\ UNCHANGED windowSize

MouseButtonPressed ==
    \E button \in Buttons, pos \in Pixels :
        /\ Handle([Ev("MouseButtonPressed", button) EXCEPT !.position = pos],
                  OnMouseButtonPressed(params, button, pos))
        /\ UNCHANGED <<running, windowSize>>

MouseButtonReleased ==
    \E button \in Buttons :
        /\ Handle(Ev("MouseButtonReleased", button),
                  OnMouseButtonReleased(params, button))
        /\ UNCHANGED <<running, windowSize>>

MouseMoved ==
    \E pos \in Pixels :
        /\ Handle([Ev("MouseMoved", "-") EXCEPT !.position = pos],
                  OnMouseMoved(params, windowSize, pos))
        /\ UNCHANGED <<running, windowSize>>

\* position: what Mouse::getPosition(window) returns in the handler
MouseWheelScrolled ==
    \E wheel \in Wheels, delta \in Deltas, mousePos \in Pixels :
        /\ Handle([Ev("MouseWheelScrolled", wheel) EXCEPT !.delta = delta,
                                                          !.position = mousePos],
                  OnMouseWheelScrolled(params, windowSize, wheel, delta, mousePos))
        /\ UNCHANGED <<running, windowSize>>

\* any other event type: no branch of the chain matches
OtherEvent ==
    /\ Handle(Ev("Other", "-"), params)
    /\ UNCHANGED <<running, windowSize>>

\* pollEvent() returns no event: the inner loop ends
PollEmpty ==
    /\ pc = "poll"
    /\ pc' = "draw"
    /\ UNCHANGED <<params, running, windowSize, event, uniforms, nEvents, nWheel, precision,
                   shader>>

\* uniform upload and glDrawElements
Draw ==
    /\ pc = "draw"
    /\ \E color \in VectorAt(colors, params.colorMode),
          colorBg \in VectorAt(colorsBg, params.colorModeBg) :
            uniforms' = FrameUniforms(params, windowSize, color, colorBg)
    /\ pc' = "display"
    /\ UNCHANGED <<params, running, windowSize, event, nEvents, nWheel, precision, shader>>

\* mutant: the loop condition is not tested, as in while (true)
DisplayLoopsOn ==
    /\ pc = "display"
    /\ pc' = "poll"
    /\ UNCHANGED <<params, running, windowSize, event, uniforms, nEvents, nWheel, precision,
                   shader>>

\* window.display() and the test of while (running)
Display ==
    /\ pc = "display"
    /\ pc' = IF running THEN "poll" ELSE "done"
    /\ UNCHANGED <<params, running, windowSize, event, uniforms, nEvents, nWheel, precision,
                   shader>>

Next ==
    \/ Closed
    \/ Resized
    \/ KeyPressed
    \/ MouseButtonPressed
    \/ MouseButtonReleased
    \/ MouseMoved
    \/ MouseWheelScrolled
    \/ OtherEvent
    \/ PollEmpty
    \/ Draw
    \/ Display

Spec == Init /\ [][Next]_vars

\* the event queue of one loop iteration is finite and the calls of the
\* frame return: pollEvent() comes to return no event, the frame is drawn
\* and displayed
SpecFair ==
    Spec /\ WF_vars(PollEmpty) /\ WF_vars(Draw) /\ WF_vars(Display)

\* a Resized event that announces a window without height (a window
\* collapsed or minimised by the window system)
ResizedFlat ==
    /\ Handle([Ev("Resized", "-") EXCEPT !.size = <<1200, 0>>], params)
    /\ windowSize' = <<1200, 0>>
    /\ UNCHANGED running

NextFlat ==
    \/ Next
    \/ ResizedFlat

\* the main loop in an environment that can take the window's height away
SpecFlat == Init /\ [][NextFlat]_vars

\* the view states after k forward scrolls over the screen centre of the
\* 1200 x 800 window, from the view states in S
RECURSIVE ScrolledForward(_, _)
ScrolledForward(S, k) ==
    IF k = 0 THEN S
    ELSE ScrolledForward(
            {OnMouseWheelScrolled(p, <<1200, 800>>, "Vertical", 1, <<600, 400>>) : p \in S},
            k - 1)

\* Bounded precision: the loop is entered in a state the program reaches by
\* Reset and up to MaxDeep forward scrolls; the counters count the events
\* handled from there on.
InitFP ==
    /\ precision = "bounded"
    /\ \E k \in 0 .. MaxDeep :
        /\ params \in ScrolledForward({reset(DefaultParams)}, k)
        /\ event = IF k = 0 THEN Ev("KeyPressed", "R")
                   ELSE [Ev("MouseWheelScrolled", "Vertical") EXCEPT
                            !.delta = 1, !.position = <<600, 400>>]
    /\ pc = "poll"
    /\ running = TRUE
    /\ windowSize = <<1200, 800>>
    /\ uniforms = NoUniforms
    /\ nEvents = 0
    /\ nWheel = 0
    /\ shader = NoFragment

SpecFP == InitFP /\ [][Next]_vars

----------------------------------------------------------------------------
(* One invocation of the fragment shader *)

\* uniform maxIterations values: what --max-iters accepts and the keys reach
ShaderMaxIterations == {0, 1, 2, 5, 10, 50, 100, 995, 1000}

\* view state zooms
ShaderZooms ==
    {R(2), R(1), Frac(17, 20), Frac(1, 2), Frac(1, 3), Frac(1, 8), Frac(1, 64),
     Frac(1, Pow2(10)), Frac(1, Pow2(12)), Frac(1, Pow2(20))}

\* view state offsets
ShaderOffsets ==
    {<<R(0), R(0)>>, <<R(-1), R(0)>>, <<R(0), R(1)>>, <<R(2), R(0)>>, <<R(3), R(0)>>,
     <<R(1), R(1)>>, <<Frac(3, 10), R(1)>>}

\* gl_FragCoord.xy: the centre of the 1200 x 800 window and the centre of
\* the pixel (900, 400)
ShaderFragCoords == {<<R(600), R(400)>>, <<Frac(1801, 2), Frac(801, 2)>>}

\* m * log2(max(1 / zoom, 1)) can be computed: 1 / zoom is a power of two,
\* or (1 / zoom)^m fits 32-bit integers
FitsPow(m, zoom) ==
    LET x == RMax(Recip(zoom), R(1))
    IN  \/ x[2] = 1 /\ x[1] = Pow2(FloorLog2(x))
        \/ m * (FloorLog2(R(x[1])) + 1) <= 31

\* The inputs of the invocations.  narrowed: the zoom is below the float
\* range and static_cast<float> gives 0; the smallest zoom stands for such
\* zooms too.  Away from the window centre the exact orbit outgrows 32-bit
\* integers, except where c escapes at once.
ShaderInputs ==
    { in \in [ maxIterations : ShaderMaxIterations, zoom : ShaderZooms,
               adaptiveIterations : BOOLEAN, offset : ShaderOffsets,
               screenPos : ShaderFragCoords, narrowed : BOOLEAN ] :
        /\ FitsPow(in.maxIterations, in.zoom)
        /\ in.narrowed => in.zoom = Frac(1, Pow2(20))
        /\ in.screenPos # <<R(600), R(400)>> =>
              /\ in.zoom \in {R(2), R(1), Frac(1, 2)}
              /\ in.offset \in {<<R(2), R(0)>>, <<R(3), R(0)>>} }

\* a frame has been drawn from some view state; one fragment is to be shaded
InitShader ==
    \E in \in ShaderInputs :
        /\ precision = "ideal"
        /\ params = [DefaultParams EXCEPT !.zoom = in.zoom,
                                          !.offsetX = in.offset[1],
                                          !.offsetY = in.offset[2],
                                          !.maxIterations = in.maxIterations,
                                          !.adaptiveIterations = in.adaptiveIterations]
        /\ windowSize = <<1200, 800>>
        /\ uniforms = [FrameUniforms(params, windowSize, colors[1], colorsBg[1])
                          EXCEPT !.zoom = IF in.narrowed THEN R(0) ELSE @]
        /\ shader = [NoFragment EXCEPT !.screenPos = in.screenPos]
        /\ pc = "display"
        /\ running = TRUE
        /\ event = NoEvent
        /\ nEvents = 0
        /\ nWheel = 0

\* main() of the shader up to the call of mandelbrot(), and the
\* initialisation of z and iter
FragmentMain ==
    /\ shader.stage = "idle"
    /\ \E adaptiveMaxIter \in AdaptiveMaxIter(uniforms) :
          shader' = [shader EXCEPT
                        !.stage = "loop",
                        !.c = CoordinateMapper(shader.screenPos, uniforms.resolution,
                                               uniforms.zoom, uniforms.offset),
                        !.maxIter = adaptiveMaxIter,
                        !.z = <<R(0), R(0)>>,
                        !.i = 0,
                        !.iter = 0]
    /\ UNCHANGED <<params, running, windowSize, event, pc, uniforms, nEvents, nWheel,
                   precision>>

\* a pass of the loop that returns the colour of an escaped point
LoopEscape ==
    /\ shader.stage = "loop"
    /\ shader.i < shader.maxIter
    /\ EscapeTest(shader.z)
    /\ LET t == FDiv(R(shader.iter), R(uniforms.maxIterations))
           rgb == getColor(t, uniforms.color, uniforms.colorBg)
       IN  shader' = [shader EXCEPT
                         !.stage = "done",
                         !.result = "escaped",
                         !.t = t,
                         !.FragColor = <<rgb[1], rgb[2], rgb[3], R(1)>>]
    /\ UNCHANGED <<params, running, windowSize, event, pc, uniforms, nEvents, nWheel,
                   precision>>

\* a pass of the loop that updates z
LoopIterate ==
    /\ shader.stage = "loop"
    /\ shader.i < shader.maxIter
    /\ ~EscapeTest(shader.z)
    /\ shader' = [shader EXCEPT
                     !.z = NextZ(shader.z, shader.c),
                     !.iter = shader.i,
                     !.i = shader.i + 1]
    /\ UNCHANGED <<params, running, windowSize, event, pc, uniforms, nEvents, nWheel,
                   precision>>

\* the loop ends without a return: the point is coloured black
LoopExit ==
    /\ shader.stage = "loop"
    /\ ~(shader.i < shader.maxIter)
    /\ shader' = [shader EXCEPT
                     !.stage = "done",
                     !.result = "bounded",
                     !.FragColor = <<R(0), R(0), R(0), R(1)>>]
    /\ UNCHANGED <<params, running, windowSize, event, pc, uniforms, nEvents, nWheel,
                   precision>>

NextShader ==
    \/ FragmentMain
    \/ LoopEscape
    \/ LoopIterate
    \/ LoopExit

SpecShader == InitShader /\ [][NextShader]_vars

----------------------------------------------------------------------------
(* The coordinate mapping of one invocation, in exact and in float arithmetic *)

MapperZooms == {R(2), R(1), Frac(1, 8), Frac(1, 64)}

MapperOffsets == {<<R(0), R(0)>>, <<R(1), R(0)>>, <<Frac(3, 10), R(1)>>, <<R(-2), R(3)>>}

\* gl_FragCoord.xy of the fragments looked at: pixel centres in a corner, next
\* to the window centre and in the opposite corner of the 1200 x 800 window
MapperFragCoords ==
    {<<Frac(1, 2), Frac(1, 2)>>, <<Frac(1199, 2), Frac(799, 2)>>,
     <<Frac(1201, 2), Frac(801, 2)>>, <<Frac(1203, 2), Frac(801, 2)>>,
     <<Frac(1201, 2), Frac(803, 2)>>, <<Frac(2399, 2), Frac(1599, 2)>>}

\* the fragments of a window of the given size
FragmentsOf(size) ==
    {f \in MapperFragCoords : RLt(f[1], R(size[1])) /\ RLt(f[2], R(size[2]))}

\* a frame has been drawn from some view state, in a window of some size;
\* one fragment is to be shaded
InitMapper ==
    \E prec \in {"ideal", "single"}, size \in Sizes, zoom \in MapperZooms,
       offset \in MapperOffsets :
        /\ precision = prec
        /\ params = [DefaultParams EXCEPT !.zoom = zoom,
                                          !.offsetX = offset[1],
                                          !.offsetY = offset[2]]
        /\ windowSize = size
        /\ uniforms = FrameUniforms(params, windowSize, colors[1], colorsBg[1])
        /\ \E f \in FragmentsOf(size) : shader = [NoFragment EXCEPT !.screenPos = f]
        /\ pc = "display"
        /\ running = TRUE
        /\ event = NoEvent
        /\ nEvents = 0
        /\ nWheel = 0

NextMapper == FragmentMain

SpecMapper == InitMapper /\ [][NextMapper]_vars

----------------------------------------------------------------------------
(* Properties *)

\* the step handled an event (event' is that event)
Handled == nEvents' = nEvents + 1

InViewport(pos, size) ==
    /\ 0 <= pos[1] /\ pos[1] < size[1]
    /\ 0 <= pos[2] /\ pos[2] < size[2]

VerticalWheel(e) == e.type = "MouseWheelScrolled" /\ e.code = "Vertical"

\* C1: zoom-to-cursor.  After a vertical wheel event handled with the cursor
\* at a pixel inside the viewport, the shader maps the cursor position to
\* the same complex point as before the event, on both axes.
C1_ZoomKeepsPointUnderCursor ==
    [][(Handled /\ VerticalWheel(event') /\ InViewport(event'.position, windowSize))
        => PointAt(event'.position, windowSize, params')
             = PointAt(event'.position, windowSize, params)]_vars

\* C1, real axis only: the part of the statement the wheel handler keeps.
C1_ZoomKeepsRealPartUnderCursor ==
    [][(Handled /\ VerticalWheel(event') /\ InViewport(event'.position, windowSize))
        => PointAt(event'.position, windowSize, params')[1]
             = PointAt(event'.position, windowSize, params)[1]]_vars

\* C2: pan.  After a pointer move handled while dragging, the shader maps
\* the new pointer position to the complex point it mapped the last recorded
\* position to before the move, on both axes.
C2_PanKeepsPointUnderPointer ==
    [][(Handled /\ event'.type = "MouseMoved" /\ params.isDragging)
        => PointAt(event'.position, windowSize, params')
             = PointAt(<<params.lastMouseX, params.lastMouseY>>, windowSize, params)]_vars

\* a drag that moved the view on both axes
C2_Witness ==
    /\ event.type = "MouseMoved"
    /\ params.isDragging
    /\ nEvents = 2
    /\ params.offsetX # DefaultParams.offsetX
    /\ params.offsetY # DefaultParams.offsetY

\* C3: before any input event the view state has the Reset values
\* zoom = 2.0, center = (0,0), maxIterations = 100, adaptive on.
C3_StartupHasResetValues ==
    (nEvents = 0 /\ pc # "rejected") =>
        /\ params.zoom = R(2)
        /\ params.offsetX = R(0)
        /\ params.offsetY = R(0)
        /\ params.maxIterations = 100
        /\ params.adaptiveIterations

\* C4: 10 <= maxIterations <= 1000 in every state of a run that was started
\* with an accepted command line.
C4_MaxIterationsInRange ==
    pc # "rejected" => (10 <= params.maxIterations /\ params.maxIterations <= 1000)

\* C5: zoom > 0 in every state, and the zoom uniform the shader divides by
\* (1.0 / zoom, then log2) is > 0 in every frame drawn, also when results
\* are stored with bounded precision (SpecFP).
C5_ZoomPositive ==
    /\ RPos(params.zoom)
    /\ pc = "display" => RPos(uniforms.zoom)

\* C5, view state only: params.zoom itself stays positive (the product
\* zoom * 0.85 rounds to a positive grid value); no handler rejects or clamps.
C5_ParamsZoomPositive == RPos(params.zoom)

\* C6: both palette indices are valid indices of their palettes.
C6_PaletteIndicesValid ==
    /\ params.colorMode \in 0 .. (Len(colors) - 1)
    /\ params.colorModeBg \in 0 .. (Len(colorsBg) - 1)

\* both indices wrapped from 0 to the last entry
C6_Witness ==
    /\ event.type = "KeyPressed" /\ event.code = "N"
    /\ params.colorMode = Len(colors) - 1
    /\ params.colorModeBg = Len(colorsBg) - 1

\* what key C or B (forward) and V or N (backward) make of an index
KeyForward(index) == OnKeyPressed([DefaultParams EXCEPT !.colorMode = index], "C").colorMode
KeyBackward(index) == OnKeyPressed([DefaultParams EXCEPT !.colorMode = index], "V").colorMode
KeyForwardBg(index) ==
    OnKeyPressed([DefaultParams EXCEPT !.colorModeBg = index], "B").colorModeBg
KeyBackwardBg(index) ==
    OnKeyPressed([DefaultParams EXCEPT !.colorModeBg = index], "N").colorModeBg

RECURSIVE KeyForwardTimes(_, _)
KeyForwardTimes(index, n) ==
    IF n = 0 THEN index ELSE KeyForwardTimes(KeyForward(index), n - 1)

RECURSIVE KeyForwardBgTimes(_, _)
KeyForwardBgTimes(index, n) ==
    IF n = 0 THEN index ELSE KeyForwardBgTimes(KeyForwardBg(index), n - 1)

\* C7: from the index of any reachable state, cycling forward P times
\* returns to it, and forward-then-backward and backward-then-forward are
\* the identity; for the foreground and for the background index.
C7_CyclingWraps ==
    /\ KeyForwardTimes(params.colorMode, Len(colors)) = params.colorMode
    /\ KeyBackward(KeyForward(params.colorMode)) = params.colorMode
    /\ KeyForward(KeyBackward(params.colorMode)) = params.colorMode
    /\ KeyForwardBgTimes(params.colorModeBg, Len(colorsBg)) = params.colorModeBg
    /\ KeyBackwardBg(KeyForwardBg(params.colorModeBg)) = params.colorModeBg
    /\ KeyForwardBg(KeyBackwardBg(params.colorModeBg)) = params.colorModeBg

\* the foreground index at P-1 (reached backwards from 0) and the
\* background index at 0
C7_Witness ==
    /\ event.type = "KeyPressed" /\ event.code = "V"
    /\ params.colorMode = Len(colors) - 1
    /\ params.colorModeBg = 0

\* C8: Reset twice is Reset once, and a handled Reset leaves zoom = 2.0,
\* center = (0,0), maxIterations = 100, adaptive on.
C8_ResetIdempotent ==
    /\ OnKeyPressed(OnKeyPressed(params, "R"), "R") = OnKeyPressed(params, "R")
    /\ (event.type = "KeyPressed" /\ event.code = "R") =>
          /\ params.zoom = R(2)
          /\ params.offsetX = R(0)
          /\ params.offsetY = R(0)
          /\ params.maxIterations = 100
          /\ params.adaptiveIterations

\* a Reset handled after the view, the iteration count and the adaptive
\* flag had been changed
C8_Witness ==
    /\ event.type = "KeyPressed" /\ event.code = "R"
    /\ nEvents = 3
    /\ params.colorModeBg = 1
    /\ params.isDragging

\* C9: a vertical wheel event multiplies zoom by 0.85 (delta > 0) or by
\* 1.176 (otherwise); with the cursor at the screen centre the offsets are
\* unchanged; from zoom = 2, centre (0,0) one forward scroll at the screen
\* centre gives zoom = 1.7, centre (0,0).
C9_WheelScalesZoom ==
    [][(Handled /\ VerticalWheel(event')) =>
        /\ params'.zoom = RMul(params.zoom,
                               IF event'.delta > 0 THEN Frac(17, 20) ELSE Frac(147, 125))
        /\ (2 * event'.position[1] = windowSize[1] /\ 2 * event'.position[2] = windowSize[2])
              => (params'.offsetX = params.offsetX /\ params'.offsetY = params.offsetY)
        /\ (/\ params.zoom = R(2) /\ params.offsetX = R(0) /\ params.offsetY = R(0)
            /\ event'.delta > 0
            /\ 2 * event'.position[1] = windowSize[1]
            /\ 2 * event'.position[2] = windowSize[2])
              => (/\ params'.zoom = Frac(17, 10)
                  /\ params'.offsetX = R(0)
                  /\ params'.offsetY = R(0))]_vars

\* one forward scroll over the screen centre, handled right after a Reset
C9_Witness ==
    /\ VerticalWheel(event) /\ event.delta > 0
    /\ 2 * event.position[1] = windowSize[1] /\ 2 * event.position[2] = windowSize[2]
    /\ nEvents = 2
    /\ params.zoom = Frac(17, 10)
    /\ params.offsetX = R(0) /\ params.offsetY = R(0)

LeftButton(e, type) == e.type = type /\ e.code = "Left"

\* C10: a handled left-button press sets the drag state and records the
\* press position, a handled left-button release clears it, and no other
\* step changes the drag state.
C10_DragStateOnlyOnPrimaryButton ==
    [][/\ (Handled /\ LeftButton(event', "MouseButtonPressed")) =>
            /\ params'.isDragging
            /\ params'.lastMouseX = event'.position[1]
            /\ params'.lastMouseY = event'.position[2]
       /\ (Handled /\ LeftButton(event', "MouseButtonReleased")) => ~params'.isDragging
       /\ ~(Handled /\ (\/ LeftButton(event', "MouseButtonPressed")
                        \/ LeftButton(event', "MouseButtonReleased")))
            => params'.isDragging = params.isDragging]_vars

\* a wheel event handled during a drag that a left-button press started
C10_Witness ==
    /\ VerticalWheel(event)
    /\ params.isDragging
    /\ params.lastMouseX = 900
    /\ params.zoom # DefaultParams.zoom

----------------------------------------------------------------------------
(* Properties of the fragment shader *)

\* the cap of the invocation has been computed
CapComputed == shader.stage # "idle"

\* ... with the adaptive scaling on and a zoom uniform above 0
Adapted == CapComputed /\ uniforms.adaptiveIterations /\ RPos(uniforms.zoom)

\* C11: with the adaptive scaling on and maxIterations fixed, the cap
\* computed for a zoom is at least the cap computed for any larger zoom.
C11_AdaptiveCapMonotone ==
    Adapted =>
        \A zoom2 \in ShaderZooms :
            RLe(uniforms.zoom, zoom2) /\ FitsPow(uniforms.maxIterations, zoom2) =>
                \A cap2 \in AdaptiveMaxIter([uniforms EXCEPT !.zoom = Flt(zoom2)]) :
                    cap2 <= shader.maxIter

\* maxIterations 10 at zoom 1/3: cap 11, above the 10 of zoom 17/20 .. 2 and
\* equal to the 11 of zoom 1/2
C11_Witness ==
    /\ Adapted
    /\ uniforms.maxIterations = 10
    /\ uniforms.zoom = Frac(1, 3)
    /\ shader.maxIter = 11

\* C12: the cap handed to mandelbrot() is never above 2000, whatever the
\* uniforms are.
C12_CapAtMost2000 == CapComputed => shader.maxIter <= 2000

\* maxIterations 1000 at zoom 2^-12: the product 2200 is cut to 2000
C12_Witness ==
    /\ Adapted
    /\ uniforms.maxIterations = 1000
    /\ uniforms.zoom = Frac(1, Pow2(12))
    /\ shader.maxIter = 2000

\* C13: with the adaptive scaling off, or with zoom >= 1, the cap is
\* maxIterations itself.
C13_CapIsBaseWithoutScaling ==
    CapComputed /\ (~uniforms.adaptiveIterations \/ RLe(R(1), uniforms.zoom)) =>
        shader.maxIter = uniforms.maxIterations

\* scaling on at zoom 2: the cap is the base 100
C13_Witness ==
    /\ Adapted
    /\ uniforms.zoom = R(2)
    /\ uniforms.maxIterations = 100
    /\ shader.maxIter = 100

\* the largest integer not above 10 * maxIterations * (1 + 0.1 * log2(max(1 / zoom, 1)))
ScaledTenths ==
    10 * uniforms.maxIterations
        + FloorMulLog2(uniforms.maxIterations, RMax(Recip(uniforms.zoom), R(1)))

\* C14 as stated: with the scaling on, the cap is the product
\* maxIterations * (1 + 0.1 * log2(max(1 / zoom, 1))) rounded to the nearest
\* integer, cut to 2000.
C14_CapIsRoundedProduct ==
    Adapted =>
        shader.maxIter = (IF 2000 < (ScaledTenths + 5) \div 10 THEN 2000
                          ELSE (ScaledTenths + 5) \div 10)

\* C14 amended: with the scaling on, the cap is that product with its
\* fraction discarded, cut to 2000: the cap N is at most 2000; below 2000 it
\* satisfies N <= product < N + 1, and N = 2000 only if product >= 2000.
C14_CapIsTruncatedProduct ==
    Adapted =>
        /\ shader.maxIter <= 2000
        /\ shader.maxIter < 2000 =>
              /\ 10 * shader.maxIter <= ScaledTenths
              /\ ScaledTenths < 10 * (shader.maxIter + 1)
        /\ shader.maxIter = 2000 => 10 * 2000 <= ScaledTenths

\* maxIterations 10 at zoom 1/3: the product 11.58.. gives the cap 11
C14_Witness ==
    /\ Adapted
    /\ uniforms.maxIterations = 10
    /\ uniforms.zoom = Frac(1, 3)
    /\ ScaledTenths = 115
    /\ shader.maxIter = 11
    /\ shader.stage = "done"

\* mandelbrot() has returned
Returned == shader.stage = "done"

\* C15 as stated: for a cap >= 1 the result is Escaped exactly when one of
\* the iterates of the first cap updates has squared magnitude > 4.  When
\* mandelbrot() returns, z is the last iterate it produced and every earlier
\* one has passed the test, so the result must be Escaped exactly when z
\* fails it.
C15_EscapedIffAnIterateEscapes ==
    Returned /\ shader.maxIter >= 1 =>
        (shader.result = "escaped" <=> EscapeTest(shader.z))

C17_ZeroIsBounded ==
    Returned /\ shader.c = <<R(0), R(0)>> =>
        /\ shader.result = "bounded"
        /\ shader.FragColor = <<R(0), R(0), R(0), R(1)>>

\* c = 0 + 0i run to the largest cap
C17_Witness ==
    /\ Returned
    /\ shader.c = <<R(0), R(0)>>
    /\ RPos(uniforms.zoom)
    /\ uniforms.maxIterations = 1000
    /\ shader.maxIter = 2000
    /\ shader.i = 2000
    /\ shader.result = "bounded"

\* C18 as stated: every Escaped result carries a value t with 0 <= t < 1,
\* whatever the point, the view state (zoom > 0, also as a float) and the
\* cap derived from it are.
C18_EscapeValueBelowOne ==
    Returned /\ shader.result = "escaped" /\ RPos(uniforms.zoom) =>
        RLe(R(0), shader.t) /\ RLt(shader.t, R(1))

----------------------------------------------------------------------------
(* Properties of the frame *)

\* C19 as stated: with a window height of 0 no frame is drawn, and no
\* handler divides by the height: the view state keeps finite values.
C19_FlatViewportSkipped ==
    /\ pc = "display" => uniforms.resolution[2] # R(0)
    /\ Finite(params.zoom) /\ Finite(params.offsetX) /\ Finite(params.offsetY)

\* the frame just drawn (pc = "display") was drawn from the view state and
\* the window size as they are now
FrameIsSnapshot ==
    \E color \in VectorAt(colors, params.colorMode),
       colorBg \in VectorAt(colorsBg, params.colorModeBg) :
        uniforms = FrameUniforms(params, windowSize, color, colorBg)

\* C20: in every pass of the main loop the events are handled before the
\* frame's parameters are read (the upload follows the empty poll), the view
\* state does not change from the upload to the end of the frame, and the
\* frame is drawn from exactly that view state.
C20_FrameSnapshotIsolation ==
    [][ /\ params' # params => pc = "poll" /\ pc' = "poll"
        /\ pc \in {"draw", "display"} => params' = params /\ windowSize' = windowSize
        /\ uniforms' # uniforms => pc = "draw" /\ pc' = "display"
        /\ pc' = "draw" => pc = "poll" /\ nEvents' = nEvents
        /\ pc' = "display" => FrameIsSnapshot' ]_vars

\* a frame drawn after a forward scroll at start-up: the zoom uploaded is the
\* zoom the handler has stored
C20_Witness ==
    /\ pc = "display"
    /\ event.type = "MouseWheelScrolled"
    /\ params.zoom = Frac(17, 20)
    /\ uniforms.zoom = Frac(17, 20)

----------------------------------------------------------------------------
(* Properties of the coordinate mapping *)

\* the point the shader computes for the fragment f from the uploaded uniforms
MappedPoint(f) ==
    CoordinateMapper(f, uniforms.resolution, uniforms.zoom, uniforms.offset)

\* C21 as stated (injectivity): for a zoom > 0 and a window with width and
\* height > 0, two distinct pixels never map to the same complex point.
C21_MapperInjective ==
    CapComputed /\ RPos(uniforms.zoom) =>
        \A f \in FragmentsOf(windowSize) :
            f # shader.screenPos => MappedPoint(f) # shader.c

\* C21 in exact arithmetic (supporting): the mapping is injective, the window
\* centre maps to the offset, and a step of one pixel changes re by
\* 2 * zoom * aspect / width and im by -2 * zoom / height.
C21_MapperAffineExact ==
    CapComputed /\ precision = "ideal" =>
        LET f == shader.screenPos
            w == R(windowSize[1])
            h == R(windowSize[2])
            stepRe == RDiv(RMul(RMul(R(2), uniforms.zoom), RDiv(w, h)), w)
            stepIm == RNeg(RDiv(RMul(R(2), uniforms.zoom), h))
        IN  /\ \A g \in FragmentsOf(windowSize) : g # f => MappedPoint(g) # shader.c
            /\ MappedPoint(<<RDiv(w, R(2)), RDiv(h, R(2))>>) = uniforms.offset
            /\ MappedPoint(<<RAdd(f[1], R(1)), f[2]>>)
                  = <<RAdd(shader.c[1], stepRe), shader.c[2]>>
            /\ MappedPoint(<<f[1], RAdd(f[2], R(1))>>)
                  = <<shader.c[1], RAdd(shader.c[2], stepIm)>>

----------------------------------------------------------------------------
(* Properties of the handlers, continued *)

\* the step handled a press of the R key
ResetHandled == Handled /\ event'.type = "KeyPressed" /\ event'.code = "R"

C22_ResetKeepsDragState ==
    [][ ResetHandled =>
          /\ params'.isDragging = params.isDragging
          /\ params'.lastMouseX = params.lastMouseX
          /\ params'.lastMouseY = params.lastMouseY
          /\ params'.colorModeBg = params.colorModeBg
          /\ params'.zoom = R(2)
          /\ params'.offsetX = R(0)
          /\ params'.offsetY = R(0)
          /\ params'.maxIterations = 100
          /\ params'.adaptiveIterations
          /\ params'.colorMode = 0 ]_vars

Center(p) == <<p.offsetX, p.offsetY>>

\* the centre the claim gives for a drag that started in the view state p
\* with the press at `press` and has the pointer at `latest` now
DragEndsAt(p, size, press, latest) ==
    LET w == R(size[1])
        h == R(size[2])
        stepX == RDiv(RMul(RMul(R(2), p.zoom), RDiv(w, h)), w)
        stepY == RDiv(RMul(R(2), p.zoom), h)
    IN  <<RSub(p.offsetX, RMul(R(latest[1] - press[1]), stepX)),
          RSub(p.offsetY, RMul(R(latest[2] - press[2]), stepY))>>

\* from the view state p, in which the primary button has just been pressed,
\* every two pointer moves end where the claim says, whatever the first
\* one was, and a third move back to the press position restores the centre
DragPathsAgree(p, size) ==
    LET press == <<p.lastMouseX, p.lastMouseY>>
    IN  \A b \in Pixels :
            LET m1 == OnMouseMoved(p, size, b)
            IN  /\ Center(m1) = DragEndsAt(p, size, press, b)
                /\ \A c \in Pixels :
                       LET m2 == OnMouseMoved(m1, size, c)
                       IN  /\ Center(m2) = DragEndsAt(p, size, press, c)
                           /\ OnMouseMoved(m2, size, press) = p

----------------------------------------------------------------------------
(* Properties of the main loop *)

ShutdownEvent(e) ==
    \/ e.type = "Closed"
    \/ e.type = "KeyPressed" /\ e.code = "Escape"

\* the steps of the loop iteration in which running has become false
ShutdownSteps ==
    {<<"poll", "poll">>, <<"poll", "draw">>, <<"draw", "display">>, <<"display", "done">>}

\* C24: once a Closed event or an Escape key press has been processed, the
\* main loop ends at the end of the current loop iteration: the events still
\* queued are handled (with their usual effect), the frame is drawn at most
\* once more, and after window.display() the loop is left; no later
\* iteration starts and no event is handled after it.
C24_ShutdownEndsTheLoop ==
    [][ /\ Handled /\ ShutdownEvent(event') => ~running'
        /\ running /\ ~running' => Handled /\ ShutdownEvent(event')
        /\ ~running =>
              /\ ~running'
              /\ <<pc, pc'>> \in ShutdownSteps
              /\ pc' = pc <=> Handled
              /\ Handled /\ event'.type = "KeyPressed" =>
                    params' = OnKeyPressed(params, event'.code)
              /\ Handled /\ event'.type = "MouseMoved" =>
                    params' = OnMouseMoved(params, windowSize, event'.position)
              /\ pc = "draw" => uniforms'.zoom = Flt(params.zoom) ]_vars

\* Escape or Closed first, then key B while running is false: B was
\* handled, one frame was drawn with its background colour and the loop ended
C24_Witness ==
    /\ pc = "done"
    /\ ~running
    /\ nEvents = 2
    /\ event.type = "KeyPressed" /\ event.code = "B"
    /\ params.colorModeBg = 1
    /\ uniforms # NoUniforms
    /\ uniforms.colorBg \in VectorAt(colorsBg, 1)

\* under SpecFair: the loop ends after running has become false
C24_ShutdownTerminates == ~running ~> pc = "done"


====
